---- MODULE Spec2Model ----
(***************************************************************************)
(* State-machine model of the exchange simulator.                          *)
(*                                                                         *)
(*   - src/src/engine.py    Order, Trade, OrderBookSide, MatchingEngine    *)
(*   - src/src/replayer.py  apply_market_event (ADD / CANCEL / TRADE)      *)
(*   - src/src/network.py   LatencySimulator.next_latency_ms               *)
(*   - src/simulation.py    SimEvent, SimulationRunner and the aggregate   *)
(*                          book the runner drives                         *)
(*                                                                         *)
(* Prices are integers (price ticks); the engine only compares, negates    *)
(* and copies prices, so the tick grid loses nothing.  An Order object is  *)
(* identified by its id (ids are unique over the engine's lifetime), and   *)
(* the variable ord holds the fields of every Order object created.        *)
(***************************************************************************)
EXTENDS Integers, Sequences, FiniteSets, TLC

\* ------------------------------------------------------------------ bounds
MaxOrders == 3
MaxPrice == 2
MaxQty == 2

VARIABLES
  ord,        \* id -> fields of the Order object (engine.py Order)
  bids,       \* MatchingEngine.bids : OrderBookSide
  asks,       \* MatchingEngine.asks : OrderBookSide
  trades,     \* MatchingEngine.trades
  ret,        \* what the last engine call returned / raised
  matchLog,   \* history: the matches of the last process_order call
  submitted,  \* history: the ids handed to process_order, in call order
  \* ---- simulation.py
  events,        \* SimulationRunner.events (heapq list of SimEvent)
  current_time,  \* SimulationRunner.current_time
  stream,        \* the replay generator: what it has yielded so far
  simBook,       \* simulation.py MatchingEngine: bids._levels, asks._levels, orders
  netcfg,        \* NetworkConfig of the latency model
  sent,          \* history: orders the strategy returned, with their latency sample
  enqueued,      \* history: <<event_type, id>> of every heappush on events, in order
  dequeued,      \* history: <<event_type, id>> of every heappop from events, in order
  calls          \* history: <<callee, id>> of every call run() made on the engine
                 \* (apply_market_event, process_order) and on the strategy

engineVars == <<ord, bids, asks, trades, ret, matchLog, submitted>>

simVars == <<events, current_time, stream, simBook, netcfg, sent, enqueued, dequeued, calls>>

\* ------------------------------------------------------------ small helpers
Min(a, b) == IF a <= b THEN a ELSE b

\* s with its last element dropped (list.pop())
Front(s) == SubSeq(s, 1, Len(s) - 1)

\* f with d[k] set to v, the key created when absent (dict assignment)
DictSet(d, k, v) == [x \in (DOMAIN d) \cup {k} |-> IF x = k THEN v ELSE d[x]]

\* del d[k]
DictDel(d, k) == [x \in (DOMAIN d) \ {k} |-> d[x]]

EmptyDict == [x \in {} |-> 0]

\* ------------------------------------------------------------------- heapq
\* CPython's heapq on a list of numbers, as used for price_heap.
RECURSIVE SiftDownLoop(_, _, _, _)
SiftDownLoop(heap, startpos, pos, newitem) ==
  \* positions are 0-based as in the source; the sequence is 1-based
  IF pos > startpos
  THEN LET parentpos == (pos - 1) \div 2
           parent == heap[parentpos + 1]
       IN IF newitem < parent
          THEN SiftDownLoop([heap EXCEPT ![pos + 1] = parent], startpos, parentpos, newitem)
          ELSE [heap EXCEPT ![pos + 1] = newitem]
  ELSE [heap EXCEPT ![pos + 1] = newitem]

SiftDown(heap, startpos, pos) == SiftDownLoop(heap, startpos, pos, heap[pos + 1])

RECURSIVE SiftUpLoop(_, _, _, _)
SiftUpLoop(heap, startpos, pos, newitem) ==
  LET endpos == Len(heap)
      childpos == 2 * pos + 1
  IN IF childpos < endpos
     THEN LET rightpos == childpos + 1
              c == IF rightpos < endpos /\ ~(heap[childpos + 1] < heap[rightpos + 1])
                   THEN rightpos ELSE childpos
          IN SiftUpLoop([heap EXCEPT ![pos + 1] = heap[c + 1]], startpos, c, newitem)
     ELSE SiftDown([heap EXCEPT ![pos + 1] = newitem], startpos, pos)

SiftUp(heap, pos) == SiftUpLoop(heap, pos, pos, heap[pos + 1])

heappush(heap, item) == SiftDown(Append(heap, item), 0, Len(heap))

\* the list after heapq.heappop (the popped item is heap[1])
heappop(heap) ==
  LET lastelt == heap[Len(heap)]
      rest == Front(heap)
  IN IF rest = <<>> THEN rest ELSE SiftUp([rest EXCEPT ![1] = lastelt], 0)

\* ------------------------------------------------------------------- Order
NewOrder(id, side, price, qty, timestamp) ==
  [id |-> id, side |-> side, price |-> price, qty |-> qty, timestamp |-> timestamp,
   filled_qty |-> 0, status |-> "OPEN"]

open_qty(o) == o.qty - o.filled_qty

Trade(price, qty, maker_order_id, taker_order_id) ==
  [price |-> price, qty |-> qty,
   maker_order_id |-> maker_order_id, taker_order_id |-> taker_order_id]

\* ----------------------------------------------------------- OrderBookSide
NewSide(is_bid) ==
  [is_bid |-> is_bid, price_heap |-> <<>>, price_levels |-> EmptyDict, orders |-> {}]

\* defaultdict(deque).__getitem__: the dict after the access (a missing key is
\* created with an empty deque)
LevelsTouch(levels, price) ==
  IF price \in DOMAIN levels THEN levels ELSE DictSet(levels, price, <<>>)

addTail(queue, id) == Append(queue, id)

add(side, o) ==
  LET heap_price == IF side.is_bid THEN -o.price ELSE o.price
      heap2 == IF o.price \notin DOMAIN side.price_levels
               THEN heappush(side.price_heap, heap_price)
               ELSE side.price_heap
      lv == LevelsTouch(side.price_levels, o.price)
  IN [side EXCEPT !.price_heap = heap2,
                  !.price_levels = DictSet(lv, o.price, addTail(lv[o.price], o.id)),
                  !.orders = @ \cup {o.id}]

\* Optional[float]: <<>> is None, <<p>> is the price p
best_price(side) ==
  IF side.price_heap = <<>> THEN <<>>
  ELSE LET price == side.price_heap[1]
       IN <<IF side.is_bid THEN -price ELSE price>>

RECURSIVE remove_filled_levels(_)
remove_filled_levels(side) ==
  IF side.price_heap = <<>> THEN side
  ELSE LET raw_price == side.price_heap[1]
           real_price == IF side.is_bid THEN -raw_price ELSE raw_price
           lv == LevelsTouch(side.price_levels, real_price)
       IN IF lv[real_price] = <<>>
          THEN remove_filled_levels(
                 [side EXCEPT !.price_heap = heappop(side.price_heap),
                              !.price_levels = DictDel(lv, real_price)])
          ELSE [side EXCEPT !.price_levels = lv]

\* QtyAhead summing total quantities instead of open quantities
RECURSIVE QtyAheadTotal(_, _, _)
QtyAheadTotal(queue, target_id, store) ==
  IF queue = <<>> THEN 0
  ELSE IF Head(queue) = target_id THEN 0
  ELSE store[Head(queue)].qty + QtyAheadTotal(Tail(queue), target_id, store)

\* the loop of get_queue_position over the deque, up to the target's id
RECURSIVE QtyAhead(_, _, _)
QtyAhead(queue, target_id, store) ==
  IF queue = <<>> THEN 0
  ELSE IF Head(queue) = target_id THEN 0
  ELSE open_qty(store[Head(queue)]) + QtyAhead(Tail(queue), target_id, store)

\* the value get_queue_position returns
get_queue_position(side, order_id, store) ==
  IF order_id \notin side.orders THEN -1
  ELSE LET target_order == store[order_id]
           queue == LevelsTouch(side.price_levels, target_order.price)[target_order.price]
       IN QtyAhead(queue, target_order.id, store)

\* the side after get_queue_position (the defaultdict access may create a level)
get_queue_position_side(side, order_id, store) ==
  IF order_id \notin side.orders THEN side
  ELSE [side EXCEPT !.price_levels = LevelsTouch(@, store[order_id].price)]

\* ---------------------------------------------------------- MatchingEngine
\* _execute_trade on the maker: the maker object after the trade
StatusAfter(o) == IF open_qty(o) = 0 THEN "FILLED" ELSE "PARTIAL"

Fill(o, qty) ==
  LET o2 == [o EXCEPT !.filled_qty = @ + qty]
  IN [o2 EXCEPT !.status = StatusAfter(o2)]

\* is_match with strict comparisons: equal prices would not cross
is_match_strict(o, best) ==
  (o.side = "buy" /\ o.price > best) \/ (o.side = "sell" /\ o.price < best)

is_match(o, best) ==
  (o.side = "buy" /\ o.price >= best) \/ (o.side = "sell" /\ o.price <= best)

\* MatchQty without the min: the taker's whole open quantity
MatchQtyTaker(taker, maker) == open_qty(taker)

MatchQty(taker, maker) == Min(open_qty(taker), open_qty(maker))

\* TradePrice booked at the taker's limit instead of the level's price
TradePriceTaker(maker, taker, best) == taker.price

TradePrice(maker, taker, best) == best

\* process_order's while loop:
\*   o    the incoming order (taker)        opp  the opposing side
\*   st   the other Order objects           tr   engine.trades
\*   lg   history of the matches made       err  best_queue[0] raised IndexError
RECURSIVE match_loop(_, _, _, _, _)
match_loop(o, opp, st, tr, lg) ==
  LET stop == [o |-> o, opp |-> opp, st |-> st, tr |-> tr, lg |-> lg, err |-> FALSE]
  IN IF ~(open_qty(o) > 0) THEN stop
     ELSE LET bp == best_price(opp)
          IN IF bp = <<>> THEN stop
             ELSE IF ~is_match(o, bp[1]) THEN stop
             ELSE LET lv == LevelsTouch(opp.price_levels, bp[1])
                      best_queue == lv[bp[1]]
                  IN IF best_queue = <<>>
                     THEN [stop EXCEPT !.opp = [opp EXCEPT !.price_levels = lv],
                                       !.err = TRUE]
                     ELSE LET maker_order == st[best_queue[1]]
                              match_qty == MatchQty(o, maker_order)
                              maker2 == Fill(maker_order, match_qty)
                              taker2 == Fill(o, match_qty)
                              tr2 == Append(tr, Trade(TradePrice(maker_order, o, bp[1]), match_qty,
                                                      maker_order.id, o.id))
                              lg2 == Append(lg, [maker |-> maker_order.id,
                                                 taker |-> o.id,
                                                 qty |-> match_qty,
                                                 makerFilledBefore |-> maker_order.filled_qty,
                                                 takerFilledBefore |-> o.filled_qty,
                                                 makerFilledAfter |-> maker2.filled_qty,
                                                 takerFilledAfter |-> taker2.filled_qty,
                                                 takerSide |-> o.side,
                                                 takerPrice |-> o.price,
                                                 makerPrice |-> maker_order.price,
                                                 levels |-> opp.price_levels])
                              opp2 == IF open_qty(maker2) = 0
                                      THEN remove_filled_levels(
                                             [opp EXCEPT !.price_levels =
                                                DictSet(lv, bp[1], Tail(best_queue))])
                                      ELSE [opp EXCEPT !.price_levels = lv]
                          IN match_loop(taker2, opp2,
                                        [st EXCEPT ![maker_order.id] = maker2], tr2, lg2)

\* process_order(order): the whole call.  The result names the new value of
\* every piece of engine state and the returned string.
process_order(order, b, a, st, tr) ==
  LET opposing_book == IF order.side = "sell" THEN b ELSE a
      my_book == IF order.side = "sell" THEN a ELSE b
      m == match_loop(order, opposing_book, st, tr, <<>>)
      rests == ~m.err /\ open_qty(m.o) > 0
      my2 == IF rests THEN add(my_book, m.o) ELSE my_book
  IN [ord |-> DictSet(m.st, order.id, m.o),
      bids |-> IF order.side = "sell" THEN m.opp ELSE my2,
      asks |-> IF order.side = "sell" THEN my2 ELSE m.opp,
      trades |-> m.tr,
      log |-> m.lg,
      ret |-> [op |-> "process_order",
               status |-> IF m.err THEN "IndexError"
                          ELSE IF rests THEN "RESTING" ELSE "FILLED"]]

\* ------------------------------------------------------ apply_market_event
\* replayer.py: CANCEL shrinks the newest order of the level when it can absorb
\* the whole quantity; TRADE has no branch.
cancel_target(queue) == queue[Len(queue)]

apply_cancel(side, st, price, qty) ==
  IF price \in DOMAIN side.price_levels /\ side.price_levels[price] # <<>>
  THEN LET target == st[cancel_target(side.price_levels[price])]
       IN IF open_qty(target) >= qty
          THEN [st EXCEPT ![target.id] = [target EXCEPT !.qty = @ - qty]]
          ELSE st
  ELSE st

\* ----------------------------------------------------------------- actions
Sides == {"buy", "sell"}
Prices == 1..MaxPrice
\* quantities an Order can be built with: process_order has no guard, so zero
\* and a negative quantity are inputs too
Qtys == (-1)..MaxQty
MarketQtys == 1..MaxQty
Ids == 1..MaxOrders

EngineInit ==
  /\ ord = EmptyDict
  /\ bids = NewSide(TRUE)
  /\ asks = NewSide(FALSE)
  /\ trades = <<>>
  /\ ret = [op |-> "none"]
  /\ matchLog = <<>>
  /\ submitted = <<>>

\* the runner is not part of the engine-only specifications
SimIdle ==
  /\ events = <<>>
  /\ current_time = 0
  /\ stream = [yielded |-> 0, last |-> 0, done |-> TRUE]
  /\ simBook = [bids |-> EmptyDict, asks |-> EmptyDict, orders |-> {}]
  /\ netcfg = [base_latency |-> 0, drop_probability |-> 0]
  /\ sent = <<>>
  /\ enqueued = <<>>
  /\ dequeued = <<>>
  /\ calls = <<>>

\* engine.process_order(order) for a freshly built Order
DoProcessOrder(order) ==
  LET r == process_order(order, bids, asks, ord, trades)
  IN /\ ord' = r.ord
     /\ bids' = r.bids
     /\ asks' = r.asks
     /\ trades' = r.trades
     /\ matchLog' = r.log
     /\ ret' = r.ret
     /\ submitted' = Append(submitted, order.id)
     /\ UNCHANGED simVars

\* side.get_queue_position(order_id)
DoGetQueuePosition(side, order_id) ==
  LET s == IF side = "buy" THEN bids ELSE asks
  IN /\ ret' = [op |-> "get_queue_position", side |-> side, order_id |-> order_id,
                position |-> get_queue_position(s, order_id, ord)]
     /\ bids' = IF side = "buy" THEN get_queue_position_side(s, order_id, ord) ELSE bids
     /\ asks' = IF side = "sell" THEN get_queue_position_side(s, order_id, ord) ELSE asks
     /\ UNCHANGED <<ord, trades, matchLog, submitted>>
     /\ UNCHANGED simVars

ProcessOrder ==
  /\ Len(submitted) < MaxOrders
  /\ \E side \in Sides, price \in Prices, qty \in Qtys :
       DoProcessOrder(NewOrder(Len(submitted) + 1, side, price, qty, 0))

\* apply_market_event(engine, ADD event): the replay source gives fresh ids.
\* replayer.py builds the order under the name Order without importing it; the
\* model binds the name to engine.py's Order, the only class with these fields.
MarketAdd ==
  /\ Len(submitted) < MaxOrders
  /\ \E side \in Sides, price \in Prices, qty \in MarketQtys :
       DoProcessOrder(NewOrder(Len(submitted) + 1, side, price, qty, 0))

MarketCancel ==
  /\ \E side \in Sides, price \in Prices, qty \in MarketQtys :
       ord' = apply_cancel(IF side = "buy" THEN bids ELSE asks, ord, price, qty)
  /\ ret' = [op |-> "CANCEL"]
  /\ UNCHANGED <<bids, asks, trades, matchLog, submitted>>
  /\ UNCHANGED simVars

MarketTrade ==
  /\ ret' = [op |-> "TRADE"]
  /\ UNCHANGED <<ord, bids, asks, trades, matchLog, submitted>>
  /\ UNCHANGED simVars

GetQueuePosition == \E side \in Sides, order_id \in Ids : DoGetQueuePosition(side, order_id)

Next == ProcessOrder \/ MarketAdd \/ MarketCancel \/ MarketTrade \/ GetQueuePosition

vars == <<engineVars, simVars>>

Init == EngineInit /\ SimIdle

Spec == Init /\ [][Next]_vars

\* ---- replay of market records alone: apply_market_event for ADD and CANCEL
\* records, the CANCEL record kept in ret
MarketCancelRecord ==
  /\ \E order_id \in Ids, side \in Sides, price \in Prices, qty \in MarketQtys :
       /\ ord' = apply_cancel(IF side = "buy" THEN bids ELSE asks, ord, price, qty)
       /\ ret' = [op |-> "CANCEL", order_id |-> order_id, side |-> side,
                  price |-> price, qty |-> qty]
  /\ UNCHANGED <<bids, asks, trades, matchLog, submitted>>
  /\ UNCHANGED simVars

NextReplay == MarketAdd \/ MarketCancelRecord

SpecReplay == Init /\ [][NextReplay]_vars

\* ---- only process_order calls
NextPO == ProcessOrder

SpecPO == Init /\ [][NextPO]_vars

\* ---- longer runs of one-lot orders with queue-position queries in between
MaxUnitOrders == 5

UnitIds == 1..MaxUnitOrders

ProcessUnitOrder ==
  /\ Len(submitted) < MaxUnitOrders
  /\ \E side \in Sides, price \in Prices :
       DoProcessOrder(NewOrder(Len(submitted) + 1, side, price, 1, 0))

QueryUnitOrder ==
  \E side \in Sides, order_id \in UnitIds :
    /\ order_id \in DOMAIN ord
    /\ DoGetQueuePosition(side, order_id)

NextUnit == ProcessUnitOrder \/ QueryUnitOrder

SpecUnit == Init /\ [][NextUnit]_vars

\* ---- the demo of engine.py (__main__), its four orders in any order
DemoOrders ==
  { NewOrder(1, "sell", 10100, 100, 1000),
    NewOrder(2, "sell", 10100, 50, 1001),
    NewOrder(3, "sell", 10200, 200, 1002),
    NewOrder(99, "buy", 10150, 120, 2000) }

DemoIds == {o.id : o \in DemoOrders}

DemoProcessOrder ==
  \E o \in DemoOrders :
    /\ o.id \notin DOMAIN ord
    /\ DoProcessOrder(o)

DemoQuery == \E side \in Sides, order_id \in DemoIds : DoGetQueuePosition(side, order_id)

NextDemo == DemoProcessOrder \/ DemoQuery

SpecDemo == Init /\ [][NextDemo]_vars

\* ============================================================ simulation.py
MaxMarketEvents == 3
MaxStrategyOrders == 2

\* ---- SimEvent and the heapq list of SimEvents: @dataclass(order=True) with
\* only timestamp taking part in comparisons
SimEvent(timestamp, event_type, payload) ==
  [timestamp |-> timestamp, event_type |-> event_type, payload |-> payload]

EvLt(a, b) == a.timestamp < b.timestamp

RECURSIVE EvSiftDownLoop(_, _, _, _)
EvSiftDownLoop(heap, startpos, pos, newitem) ==
  IF pos > startpos
  THEN LET parentpos == (pos - 1) \div 2
           parent == heap[parentpos + 1]
       IN IF EvLt(newitem, parent)
          THEN EvSiftDownLoop([heap EXCEPT ![pos + 1] = parent], startpos, parentpos, newitem)
          ELSE [heap EXCEPT ![pos + 1] = newitem]
  ELSE [heap EXCEPT ![pos + 1] = newitem]

EvSiftDown(heap, startpos, pos) == EvSiftDownLoop(heap, startpos, pos, heap[pos + 1])

RECURSIVE EvSiftUpLoop(_, _, _, _)
EvSiftUpLoop(heap, startpos, pos, newitem) ==
  LET endpos == Len(heap)
      childpos == 2 * pos + 1
  IN IF childpos < endpos
     THEN LET rightpos == childpos + 1
              c == IF rightpos < endpos /\ ~EvLt(heap[childpos + 1], heap[rightpos + 1])
                   THEN rightpos ELSE childpos
          IN EvSiftUpLoop([heap EXCEPT ![pos + 1] = heap[c + 1]], startpos, c, newitem)
     ELSE EvSiftDown([heap EXCEPT ![pos + 1] = newitem], startpos, pos)

EvSiftUp(heap, pos) == EvSiftUpLoop(heap, pos, pos, heap[pos + 1])

ev_heappush(heap, item) == EvSiftDown(Append(heap, item), 0, Len(heap))

\* the list after heapq.heappop(self.events); the popped event is heap[1]
ev_heappop(heap) ==
  LET lastelt == heap[Len(heap)]
      rest == Front(heap)
  IN IF rest = <<>> THEN rest ELSE EvSiftUp([rest EXCEPT ![1] = lastelt], 0)

\* ---- simulation.py records
SimOrder(order_id, side, price, quantity, timestamp) ==
  [order_id |-> order_id, side |-> side, price |-> price, quantity |-> quantity,
   timestamp |-> timestamp]

MarketEvent(timestamp, event_type, order_id, price, qty, side) ==
  [timestamp |-> timestamp, event_type |-> event_type, order_id |-> order_id,
   price |-> price, qty |-> qty, side |-> side]

\* ---- simulation.py BookSide / MatchingEngine (aggregate quantity per price)
add_order(levels, price, qty) ==
  DictSet(levels, price, (IF price \in DOMAIN levels THEN levels[price] ELSE 0) + qty)

SimEngineInit ==
  [bids |-> add_order(add_order(add_order(EmptyDict, 9990, 100), 9995, 50), 10000, 20),
   asks |-> add_order(add_order(EmptyDict, 10010, 100), 10015, 50),
   orders |-> {}]

sim_process_order(book, order) ==
  LET b1 == [book EXCEPT !.orders = @ \cup {order.order_id}]
  IN IF order.side = "buy"
     THEN [b1 EXCEPT !.bids = add_order(@, order.price, order.quantity)]
     ELSE IF order.side = "sell"
     THEN [b1 EXCEPT !.asks = add_order(@, order.price, order.quantity)]
     ELSE b1

sim_apply_market_event(book, event) ==
  IF event.event_type = "ADD"
  THEN IF event.side = "buy"
       THEN [book EXCEPT !.bids = add_order(@, event.price, event.qty)]
       ELSE [book EXCEPT !.asks = add_order(@, event.price, event.qty)]
  ELSE book

\* ---- network.py LatencySimulator
\* Latencies are counted in half microseconds (1/2000 ms), so that the
\* conversion int(latency_ms * 1000) has something to truncate.  The draw of
\* rng.random() is a percentage 0..99, drop_probability a percentage 0..100.
DropSignal == -2000

next_latency_ms(cfg, u, jitter) ==
  IF u < cfg.drop_probability THEN DropSignal ELSE cfg.base_latency + jitter

\* int(latency_ms * 1000): truncation toward zero
latency_us(latency_ms) ==
  IF latency_ms >= 0 THEN latency_ms \div 2 ELSE -((-latency_ms) \div 2)

\* ---- inputs of a run
MarketTimes == {1000, 1010, 3000}
MarketKinds == {"ADD", "CANCEL"}
SimPrices == {10005}
SimQtys == {10}
DropProbabilities == {0, 50, 100}
Draws == {0, 99}
Jitters == {0, 21, 4000}
NetworkConfigs == [base_latency : {1000}, drop_probability : DropProbabilities]

\* next(self.market_stream): the records the replay source can yield next (in
\* non-decreasing timestamp order), as <<event>>, or <<>> for StopIteration
StreamNext(strm) ==
  {<<>>} \cup
  IF strm.done \/ strm.yielded >= MaxMarketEvents THEN {}
  ELSE { <<MarketEvent(t, k, strm.yielded + 1, p, q, sd)>> :
           t \in {x \in MarketTimes : x >= strm.last},
           k \in MarketKinds, p \in SimPrices, q \in SimQtys, sd \in Sides }

StreamAfter(strm, got) ==
  IF got = <<>> THEN [strm EXCEPT !.done = TRUE]
  ELSE [strm EXCEPT !.yielded = @ + 1, !.last = got[1].timestamp]

\* what the histories record of a SimEvent: its type and its payload's id
EvKey(e) == <<e.event_type, e.payload.order_id>>

\* the enqueue history after _schedule_next_market_event pulled `got`
scheduled(hist, got) ==
  IF got = <<>> THEN hist
  ELSE Append(hist, EvKey(SimEvent(got[1].timestamp, "MARKET", got[1])))

\* a scheduling that assigns the queue instead of pushing onto it
schedule_replacing(heap, got) ==
  IF got = <<>> THEN heap
  ELSE <<SimEvent(got[1].timestamp, "MARKET", got[1])>>

\* a scheduling that pushes the pulled record twice
schedule_twice(heap, got) ==
  IF got = <<>> THEN heap
  ELSE ev_heappush(ev_heappush(heap, SimEvent(got[1].timestamp, "MARKET", got[1])),
                   SimEvent(got[1].timestamp, "MARKET", got[1]))

\* _schedule_next_market_event: the heap after the pull `got`
schedule_next_market_event(heap, got) ==
  IF got = <<>> THEN heap
  ELSE ev_heappush(heap, SimEvent(got[1].timestamp, "MARKET", got[1]))

\* strategy.on_market_update(engine): <<>> for None, or <<order>>
StrategyReturns ==
  {<<>>} \cup
  IF Len(sent) >= MaxStrategyOrders THEN {}
  ELSE { <<SimOrder(999 + Len(sent), sd, p, q, 0)>> :
           sd \in Sides, p \in SimPrices, q \in SimQtys }

\* SimulationRunner.__init__
SimInit ==
  /\ netcfg \in NetworkConfigs
  /\ current_time = 0
  /\ simBook = SimEngineInit
  /\ sent = <<>>
  /\ \E got \in StreamNext([yielded |-> 0, last |-> 0, done |-> FALSE]) :
       /\ stream = StreamAfter([yielded |-> 0, last |-> 0, done |-> FALSE], got)
       /\ events = schedule_next_market_event(<<>>, got)
       /\ enqueued = scheduled(<<>>, got)
  /\ dequeued = <<>>
  /\ calls = <<>>

\* the part of _handle_market_event after the strategy returned user_order:
\* the heap and the history after it
order_sent(heap, now, user_order, u, jitter) ==
  LET latency_ms == next_latency_ms(netcfg, u, jitter)
      arrival_time == now + latency_us(latency_ms)
  IN [events |-> ev_heappush(heap, SimEvent(arrival_time, "ORDER_ARRIVAL", user_order)),
      sent |-> Append(sent, [order_id |-> user_order.order_id,
                             latency_ms |-> latency_ms,
                             sent_at |-> now,
                             arrival_time |-> arrival_time]),
      enqueued |-> Append(enqueued,
                          EvKey(SimEvent(arrival_time, "ORDER_ARRIVAL", user_order)))]

\* one pass of run()'s loop that pops a MARKET event
HandleMarket ==
  /\ events # <<>>
  /\ events[1].event_type = "MARKET"
  /\ LET sim_event == events[1]
         popped == ev_heappop(events)
     IN /\ current_time' = sim_event.timestamp
        /\ simBook' = sim_apply_market_event(simBook, sim_event.payload)
        /\ \E user_order \in StrategyReturns, u \in Draws, jitter \in Jitters,
              got \in StreamNext(stream) :
             LET after == IF user_order = <<>>
                          THEN [events |-> popped, sent |-> sent, enqueued |-> enqueued]
                          ELSE order_sent(popped, sim_event.timestamp, user_order[1], u, jitter)
             IN /\ sent' = after.sent
                /\ events' = schedule_next_market_event(after.events, got)
                /\ enqueued' = scheduled(after.enqueued, got)
                /\ stream' = StreamAfter(stream, got)
        /\ dequeued' = Append(dequeued, EvKey(sim_event))
        /\ calls' = calls \o << <<"apply_market_event", sim_event.payload.order_id>>,
                                <<"on_market_update", sim_event.payload.order_id>> >>
  /\ UNCHANGED netcfg
  /\ UNCHANGED engineVars

\* one pass of run()'s loop that pops an ORDER_ARRIVAL event
HandleOrderArrival ==
  /\ events # <<>>
  /\ events[1].event_type = "ORDER_ARRIVAL"
  /\ current_time' = events[1].timestamp
  /\ events' = ev_heappop(events)
  /\ simBook' = sim_process_order(simBook, events[1].payload)
  /\ dequeued' = Append(dequeued, EvKey(events[1]))
  /\ calls' = Append(calls, <<"process_order", events[1].payload.order_id>>)
  /\ UNCHANGED <<stream, netcfg, sent, enqueued>>
  /\ UNCHANGED engineVars

NextSim == HandleMarket \/ HandleOrderArrival

InitSim == EngineInit /\ SimInit

SpecSim == InitSim /\ [][NextSim]_vars

\* run() keeps taking passes of `while self.events:` as long as the queue is
\* not empty
SpecSimFair == InitSim /\ [][NextSim]_vars /\ WF_vars(NextSim)

\* ------------------------------------------------------- derived notions
SideOf(name) == IF name = "buy" THEN bids ELSE asks

RECURSIVE SeqToSet(_)
SeqToSet(q) == IF q = <<>> THEN {} ELSE {Head(q)} \cup SeqToSet(Tail(q))

\* prices at which some order actually rests on the side
RestingPrices(side) == {p \in DOMAIN side.price_levels : side.price_levels[p] # <<>>}

\* ids of the orders resting on the side
RestingIds(side) == UNION {SeqToSet(side.price_levels[p]) : p \in DOMAIN side.price_levels}

\* position of an id in the call history (arrival rank)
Rank(id) == CHOOSE k \in 1..Len(submitted) : submitted[k] = id

RECURSIVE SumOpen(_)
SumOpen(S) ==
  IF S = {} THEN 0
  ELSE LET x == CHOOSE y \in S : TRUE IN open_qty(ord[x]) + SumOpen(S \ {x})

\* the orders resting on the side at id's price that arrived before id
EarlierAtLevel(side, id) ==
  {x \in RestingIds(side) : ord[x].price = ord[id].price /\ Rank(x) < Rank(id)}

\* ------------------------------------------------------------------ claims

\* C1: after process_order calls only, whenever both sides hold resting
\* orders, every resting bid price is strictly below every resting ask price
\* (highest bid < lowest ask).
C1_NoCrossedBook ==
  \A pb \in RestingPrices(bids), pa \in RestingPrices(asks) : pb < pa

\* C1 witness: a call that matched and left orders resting on both sides.
C1_Witness ==
  /\ ret.op = "process_order"
  /\ matchLog # <<>>
  /\ RestingPrices(bids) # {}
  /\ RestingPrices(asks) # {}

\* C2: every match takes as maker the earliest-arrived order resting at the
\* best opposing price (the lowest resting ask for a buy, the highest resting
\* bid for a sell), and every order that rested at the maker's level before
\* the maker has no open quantity left.
C2_PriceTimePriority ==
  \A k \in 1..Len(matchLog) :
    LET e == matchLog[k]
        resting == {p \in DOMAIN e.levels : e.levels[p] # <<>>}
        atBest == \A p \in resting :
                    IF e.takerSide = "buy" THEN e.makerPrice <= p ELSE e.makerPrice >= p
        makerSide == IF e.takerSide = "buy" THEN asks ELSE bids
    IN /\ e.makerPrice \in resting
       /\ atBest
       /\ \A x \in SeqToSet(e.levels[e.makerPrice]) : Rank(e.maker) <= Rank(x)
       /\ \A x \in makerSide.orders :
            (ord[x].price = e.makerPrice /\ Rank(x) < Rank(e.maker)) => open_qty(ord[x]) = 0

\* C3: every logged trade carries its maker's limit price, which is no worse
\* for the taker than the taker's own limit.
C3_TradeAtMakerPrice ==
  \A k \in 1..Len(trades) :
    LET t == trades[k]
        maker == ord[t.maker_order_id]
        taker == ord[t.taker_order_id]
    IN /\ t.price = maker.price
       /\ taker.side = "buy" => t.price <= taker.price
       /\ taker.side = "sell" => t.price >= taker.price

\* C3 witness: a trade at a price strictly better than the taker's limit.
C3_Witness ==
  \E k \in 1..Len(trades) :
    /\ ord[trades[k].taker_order_id].side = "buy"
    /\ trades[k].price < ord[trades[k].taker_order_id].price
    /\ trades[k].qty > 0

\* C4: each match raises the maker's and the taker's filled quantity by exactly
\* the trade quantity, and every order has 0 <= filled <= total.
C4_QuantityConservation ==
  /\ \A k \in 1..Len(matchLog) :
       LET e == matchLog[k]
           t == trades[Len(trades) - Len(matchLog) + k]
       IN /\ t.maker_order_id = e.maker
          /\ t.taker_order_id = e.taker
          /\ e.makerFilledAfter = e.makerFilledBefore + t.qty
          /\ e.takerFilledAfter = e.takerFilledBefore + t.qty
  /\ \A id \in DOMAIN ord :
       0 <= ord[id].filled_qty /\ ord[id].filled_qty <= ord[id].qty

\* C5: the demo scenario.  After sells #1 100@101.00, #2 50@101.00 and
\* #3 200@102.00, in that order, queue_position(#2) on the asks is 100; the
\* buy #99 120@101.50 then makes exactly the trades 100@101.00 (maker #1) and
\* 20@101.00 (maker #2), returns FILLED, leaves #1 filled and off its queue,
\* #2 resting with 30 open and #3 untouched.
C5_DemoScenario ==
  /\ submitted = <<1, 2, 3>> => get_queue_position(asks, 2, ord) = 100
  /\ ( /\ submitted = <<1, 2, 3>>
       /\ ret.op = "get_queue_position" /\ ret.side = "sell" /\ ret.order_id = 2 )
     => ret.position = 100
  /\ (submitted = <<1, 2, 3, 99>> /\ ret.op = "process_order") =>
       /\ trades = << Trade(10100, 100, 1, 99), Trade(10100, 20, 2, 99) >>
       /\ ret.status = "FILLED"
       /\ ord[99].status = "FILLED"
       /\ ord[1].status = "FILLED"
       /\ 1 \notin RestingIds(asks)
       /\ asks.price_levels[10100] = <<2>>
       /\ open_qty(ord[2]) = 30
       /\ ord[3] = NewOrder(3, "sell", 10200, 200, 1002)
       /\ asks.price_levels[10200] = <<3>>
       /\ RestingIds(bids) = {}

\* C5 witness: the whole scenario has run.
C5_Witness ==
  /\ submitted = <<1, 2, 3, 99>>
  /\ ret.op = "process_order"
  /\ Len(trades) = 2

\* C6: for every order resting on a side, get_queue_position is the sum of the
\* open quantities of the orders resting at the same price that arrived
\* earlier (0 at the front of the level), and a query just made returned it.
C6_QueuePosition ==
  /\ \A sd \in Sides : \A id \in RestingIds(SideOf(sd)) :
       get_queue_position(SideOf(sd), id, ord) = SumOpen(EarlierAtLevel(SideOf(sd), id))
  /\ (ret.op = "get_queue_position" /\ ret.order_id \in RestingIds(SideOf(ret.side)))
       => ret.position = SumOpen(EarlierAtLevel(SideOf(ret.side), ret.order_id))

\* C6 witness: a query answered a positive position behind a partly filled order.
C6_Witness ==
  /\ ret.op = "get_queue_position"
  /\ ret.order_id \in RestingIds(SideOf(ret.side))
  /\ ret.position > 0
  /\ \E x \in EarlierAtLevel(SideOf(ret.side), ret.order_id) : ord[x].filled_qty > 0

\* C7: get_queue_position answers -1 for every id that has no order resting
\* on the queried side.
C7_NotFoundSignal ==
  (ret.op = "get_queue_position" /\ ret.order_id \notin RestingIds(SideOf(ret.side)))
    => ret.position = -1

\* C9: with drop probability 1.0 no strategy order ever produces an
\* ORDER_ARRIVAL event, and none reaches the engine's process_order.
C9_DropNeverArrives ==
  netcfg.drop_probability = 100 =>
    /\ \A k \in 1..Len(events) : events[k].event_type # "ORDER_ARRIVAL"
    /\ simBook.orders = {}

\* C10: the virtual clock never decreases from one dequeue to the next, and it
\* changes only by taking the timestamp of the event being dequeued.
C10_ClockMonotone ==
  [][ /\ current_time' >= current_time
      /\ current_time' # current_time =>
           (events # <<>> /\ current_time' = events[1].timestamp) ]_vars

\* C11: a process_order call whose order has a non-positive quantity or a
\* non-positive price answers with an invalid-order signal, which is neither
\* RESTING nor FILLED, and leaves the order on neither side.
C11_InvalidOrderRejected ==
  ( /\ ret.op = "process_order"
    /\ submitted # <<>>
    /\ LET o == ord[submitted[Len(submitted)]] IN o.qty <= 0 \/ o.price <= 0 )
    => /\ ret.status \notin {"RESTING", "FILLED"}
       /\ submitted[Len(submitted)] \notin RestingIds(bids) \cup RestingIds(asks)

\* how often a key occurs in a history
Count(hist, key) == Cardinality({k \in 1..Len(hist) : hist[k] = key})

\* how often a key occurs among the queued events
Queued(key) == Cardinality({k \in 1..Len(events) : EvKey(events[k]) = key})

\* every order the strategy sent so far was enqueued once, and is either
\* still queued or was dequeued once and handed to the engine's process_order
ArrivalsAccounted ==
  \A k \in 1..Len(sent) :
    LET key == <<"ORDER_ARRIVAL", sent[k].order_id>>
    IN /\ Count(enqueued, key) = 1
       /\ Count(dequeued, key) + Queued(key) = 1
       /\ Count(dequeued, key) = 1 <=> sent[k].order_id \in simBook.orders

\* C12: for a finite replay the scheduler's loop reaches an empty event queue;
\* once the replay source is exhausted no MARKET event is enqueued any more;
\* and every ORDER_ARRIVAL event enqueued, also one later than the last market
\* event, is dequeued and delivered to process_order exactly once.
C12_SchedulerTerminates ==
  /\ <>(events = <<>>)
  /\ [][stream.done =>
          \A k \in (Len(enqueued) + 1)..Len(enqueued') : enqueued'[k][1] # "MARKET"]_vars
  /\ [](stream.done => \A k \in 1..Len(events) : events[k].event_type # "MARKET")
  /\ []ArrivalsAccounted
  /\ [](events = <<>> =>
          \A k \in 1..Len(enqueued) : Count(dequeued, enqueued[k]) = 1)

\* C12 witness: the run has ended with an empty queue after delivering an
\* order that arrived later than the last market event.
C12_Witness ==
  /\ events = <<>>
  /\ stream.done
  /\ stream.yielded > 0
  /\ \E k \in 1..Len(sent) :
       /\ sent[k].arrival_time > stream.last
       /\ sent[k].order_id \in simBook.orders
       /\ dequeued[Len(dequeued)] = <<"ORDER_ARRIVAL", sent[k].order_id>>

\* the order of the last process_order call
LastOrder == ord[submitted[Len(submitted)]]

\* the <<side, price>> levels whose FIFO queue holds the id
LevelsOf(id) ==
  {<<sd, p>> \in Sides \X (DOMAIN bids.price_levels \cup DOMAIN asks.price_levels) :
     /\ p \in DOMAIN SideOf(sd).price_levels
     /\ id \in SeqToSet(SideOf(sd).price_levels[p])}

\* C13: process_order returns RESTING exactly when the order has open quantity
\* left after matching, and the order then sits at the tail of the level of
\* its own side at its limit price and on no other side or level; it returns
\* FILLED exactly when the order's open quantity is 0, and the order is then
\* in no level.
C13_ReturnStatus ==
  (ret.op = "process_order" /\ submitted # <<>>) =>
    LET o == LastOrder
        own == SideOf(o.side).price_levels
    IN /\ ret.status = "RESTING" <=> open_qty(o) > 0
       /\ ret.status = "FILLED" <=> open_qty(o) = 0
       /\ ret.status = "RESTING" =>
            /\ o.price \in DOMAIN own
            /\ own[o.price] # <<>>
            /\ own[o.price][Len(own[o.price])] = o.id
            /\ Cardinality({k \in 1..Len(own[o.price]) : own[o.price][k] = o.id}) = 1
            /\ LevelsOf(o.id) = {<<o.side, o.price>>}
       /\ ret.status = "FILLED" => LevelsOf(o.id) = {}

\* the price a price_heap entry stands for (bids are stored negated)
RealPrice(side, raw_price) == IF side.is_bid THEN -raw_price ELSE raw_price

\* how often the price occurs in the side's price_heap
HeapCount(side, p) ==
  Cardinality({k \in 1..Len(side.price_heap) : RealPrice(side, side.price_heap[k]) = p})

\* the best of a non-empty set of prices for the side
BestOf(side, S) ==
  CHOOSE p \in S : \A q \in S : IF side.is_bid THEN q <= p ELSE q >= p

\* C14: on each side a price occurs in price_heap exactly once when the FIFO
\* queue at that price is non-empty and not at all otherwise, and best_price()
\* is the maximum (bids) or minimum (asks) price of the resting orders, the
\* 'empty' answer being given only when no order rests on the side.
C14_LevelIndexConsistency ==
  \A sd \in Sides :
    LET side == SideOf(sd)
        known == DOMAIN side.price_levels
                   \cup {RealPrice(side, side.price_heap[k]) : k \in 1..Len(side.price_heap)}
    IN /\ \A p \in known :
            HeapCount(side, p) = IF p \in RestingPrices(side) THEN 1 ELSE 0
       /\ best_price(side) =
            IF RestingPrices(side) = {} THEN <<>>
            ELSE <<BestOf(side, RestingPrices(side))>>

\* C15: a MARKET event of kind ADD handled by the scheduler goes through the
\* same matching as a live order, so after MARKET events alone have been
\* applied (no strategy order has reached the engine) the book is not crossed:
\* every bid level is priced strictly below every ask level.
C15_MarketAddMatches ==
  (dequeued # <<>> /\ \A k \in 1..Len(dequeued) : dequeued[k][1] = "MARKET") =>
    \A pb \in DOMAIN simBook.bids, pa \in DOMAIN simBook.asks : pb < pa

\* the enqueue sequence number of an event: its place in the push history
EnqSeq(key) == CHOOSE k \in 1..Len(enqueued) : enqueued[k] = key

\* C16: events leave the queue in the order of (timestamp, enqueue sequence):
\* the event at the head of the queue, the next one dequeued, was enqueued
\* before every other pending event that has the same timestamp.
C16_TieBreakBySequence ==
  \A k \in 1..Len(events) :
    events[k].timestamp = events[1].timestamp =>
      EnqSeq(EvKey(events[1])) <= EnqSeq(EvKey(events[k]))

\* C17: a CANCEL record whose order id refers to an order resting at the
\* record's side and price changes no other order, and when that order has at
\* least the record's quantity open it reduces that order's quantity by it.
C17_CancelByOrderId ==
  [][ ( /\ ret'.op = "CANCEL"
        /\ <<ret'.side, ret'.price>> \in LevelsOf(ret'.order_id) )
      => /\ \A id \in DOMAIN ord : ord'[id] # ord[id] => id = ret'.order_id
         /\ open_qty(ord[ret'.order_id]) >= ret'.qty =>
              ord'[ret'.order_id].qty = ord[ret'.order_id].qty - ret'.qty ]_vars

\* C18: every order in a side's FIFO queues or id lookup has open quantity
\* above 0, an order whose open quantity is 0 is in neither, and every logged
\* Trade has a quantity above 0.
C18_OnlyLiveOrdersRest ==
  /\ \A sd \in Sides :
       \A id \in RestingIds(SideOf(sd)) \cup SideOf(sd).orders : open_qty(ord[id]) > 0
  /\ \A id \in DOMAIN ord :
       open_qty(ord[id]) = 0 =>
         \A sd \in Sides : id \notin RestingIds(SideOf(sd)) \cup SideOf(sd).orders
  /\ \A k \in 1..Len(trades) : trades[k].qty > 0

\* C19: get_queue_position is a pure query: whatever id it is asked about, a
\* call leaves the price levels, the best-price index and the id lookup of
\* both sides exactly as they were.
C19_QueryIsPure ==
  [][ret'.op = "get_queue_position" => (bids' = bids /\ asks' = asks)]_vars

\* the sum of the logged trade quantities in which the order is maker or taker
RECURSIVE TradedQty(_, _)
TradedQty(log, id) ==
  IF log = <<>> THEN 0
  ELSE (IF Head(log).maker_order_id = id \/ Head(log).taker_order_id = id
        THEN Head(log).qty ELSE 0) + TradedQty(Tail(log), id)

\* C20: the trade log only grows, by exactly one Trade per match; each order's
\* filled quantity is the sum of the logged trade quantities in which it is
\* maker or taker; and an order's status is OPEN iff its filled quantity is 0,
\* FILLED iff its open quantity is 0, and PARTIAL otherwise.
C20_TradeLogAccounting ==
  /\ Len(matchLog) <= Len(trades)
  /\ \A k \in 1..Len(matchLog) :
       LET t == trades[Len(trades) - Len(matchLog) + k]
       IN t.maker_order_id = matchLog[k].maker /\ t.taker_order_id = matchLog[k].taker
            /\ t.qty = matchLog[k].qty
  /\ \A id \in DOMAIN ord :
       /\ ord[id].filled_qty = TradedQty(trades, id)
       /\ ord[id].status = "OPEN" <=> ord[id].filled_qty = 0
       /\ ord[id].status = "FILLED" <=> open_qty(ord[id]) = 0
       /\ ord[id].status = "PARTIAL" <=>
            (ord[id].filled_qty # 0 /\ open_qty(ord[id]) # 0)

\* the ids of the calls made on one callee, in call order
RECURSIVE CallsTo(_, _)
CallsTo(hist, callee) ==
  IF hist = <<>> THEN <<>>
  ELSE (IF Head(hist)[1] = callee THEN <<Head(hist)[2]>> ELSE <<>>)
         \o CallsTo(Tail(hist), callee)

\* the MARKET events in the queue
QueuedMarkets == {k \in 1..Len(events) : events[k].event_type = "MARKET"}

\* C21: the event queue never holds more than one MARKET event; the market
\* records are applied in the order the replay source yielded them (record n
\* of the replay is the n-th applied), each once, the one still queued being
\* the last one yielded; and the strategy hook is invoked once for every
\* MARKET event, right after the record was applied, and for no ORDER_ARRIVAL
\* event.
C21_OneMarketEventAtATime ==
  LET applied == CallsTo(calls, "apply_market_event")
      hooked == CallsTo(calls, "on_market_update")
  IN /\ Cardinality(QueuedMarkets) <= 1
     /\ \A k \in QueuedMarkets : events[k].payload.order_id = stream.yielded
     /\ Len(applied) + Cardinality(QueuedMarkets) = stream.yielded
     /\ \A n \in 1..Len(applied) : applied[n] = n
     /\ hooked = applied
     /\ \A k \in 1..Len(calls) :
          /\ calls[k][1] = "on_market_update" =>
               (k > 1 /\ calls[k - 1] = <<"apply_market_event", calls[k][2]>>)
          /\ calls[k][1] = "apply_market_event" =>
               (k < Len(calls) /\ calls[k + 1] = <<"on_market_update", calls[k][2]>>)
     /\ Len(calls) = Len(dequeued) + Len(applied)
     /\ Len(CallsTo(calls, "process_order")) = Len(dequeued) - Len(applied)

\* C21 witness: a finished run that applied several market records and
\* delivered a strategy order between two of them.
C21_Witness ==
  /\ events = <<>>
  /\ stream.yielded >= 2
  /\ Len(CallsTo(calls, "on_market_update")) = stream.yielded
  /\ \E k \in 2..(Len(calls) - 1) :
       /\ calls[k][1] = "process_order"
       /\ calls[k + 1][1] = "apply_market_event"

====
